---- MODULE Spec2Model ----
(***************************************************************************)
(* watchurl: one monitorURL goroutine per monitored URL fetches the URL,   *)
(* normalises the body (extractBody), compares it with lastContent and     *)
(* stores a snapshot on a difference; the admin handlers add, delete and   *)
(* toggle targets.  The store is the SQLite database behind db; writes are *)
(* serialised by the mutex mu, reads are not.                              *)
(*                                                                         *)
(* Time is relative: a LastCheckMark is kept as its age (saturating at     *)
(* MaxAge), a sleep and a ticker as the time left.  Tick lets one unit of  *)
(* time pass.  time.Now() is taken to be non-decreasing, so the snapshot   *)
(* with the latest timestamp of a target is the one inserted last; the     *)
(* timestamps of snapshots are kept up to their order.                     *)
(***************************************************************************)
EXTENDS Integers, Sequences, FiniteSets, TLC

\* ------------------------------------------------------------------ bounds
MaxTargets == 1
MaxSnapshots == 2
MaxFreq == 2
NumReq == 1
MaxReqs == 2
MaxLoops == 2
MaxKids == 2
MaxCalls == 2

MaxAge == MaxFreq
\* the ids of targets: addURLHandler inserts MaxTargets rows at most, a store
\* found at start-up can hold MaxLoops
UrlIds == 1..MaxLoops
Reqs == 1..NumReq
AllReqs == 1..MaxReqs
Frequencies == 1..MaxFreq
NoRow == -1

Min(a, b) == IF a < b THEN a ELSE b
Max(a, b) == IF a > b THEN a ELSE b

\* ------------------------------------------------------------------ documents
\* A string of HTML is the sequence of its tags and text runs; a parsed
\* document is a tree of html.Node: Type, Data and the children.
Text(s) == [Type |-> "Text", Data |-> s, Children |-> <<>>]
Elem(tag, kids) == [Type |-> "Element", Data |-> tag, Children |-> kids]
Document(kids) == [Type |-> "Document", Data |-> "", Children |-> kids]

DocA ==
    <<"<html>", "<head>", "<meta>", "</head>",
      "<body>", "<p>", "A", "</p>", "<meta>", "</body>", "</html>">>
DocB ==
    <<"<html>", "<head>", "</head>",
      "<body>", "<p>", "<meta>", "B", "</p>", "</body>", "</html>">>
DocEmpty ==
    <<"<html>", "<head>", "</head>", "<body>", "<meta>", "</body>", "</html>">>
Docs == {DocA, DocB, DocEmpty}
NoDoc == <<>>

\* html.Parse, the tree construction of HTML5 for these tags: the tags that
\* open an element with content, and those handled by the rules of "in head"
Containers == {"div", "p"}
StartTag(tag) == "<" \o tag \o ">"
EndTag(tag) == "</" \o tag \o ">"
HeadTags == {"<meta>", "<script>"}

\* the parser: its insertion mode, the children of head so far, the stack of
\* open elements from body down (each with its children so far), and an open
\* script: the text read so far, where the element goes, the mode to return to
StartParser ==
    [mode |-> "before head", head |-> <<>>, stack |-> <<>>,
     script |-> <<>>, scriptIn |-> "", orig |-> ""]

Frame(tag) == [tag |-> tag, kids |-> <<>>]
AddToTop(stack, node) ==
    [stack EXCEPT ![Len(stack)].kids = Append(@, node)]
PopTop(stack) ==
    AddToTop(SubSeq(stack, 1, Len(stack) - 1),
             Elem(stack[Len(stack)].tag, stack[Len(stack)].kids))
IsOpen(stack, tag) == \E k \in 2..Len(stack) : stack[k].tag = tag

\* pop the open elements up to and including the innermost one named tag
RECURSIVE PopTo(_, _)
PopTo(stack, tag) ==
    IF stack[Len(stack)].tag = tag THEN PopTop(stack)
    ELSE PopTo(PopTop(stack), tag)

\* at the end of the input every open element is closed
RECURSIVE PopAll(_)
PopAll(stack) == IF Len(stack) <= 1 THEN stack ELSE PopAll(PopTop(stack))

\* a start tag of a block closes an open p first
OpenElement(stack, tag) ==
    Append(IF IsOpen(stack, "p") THEN PopTo(stack, "p") ELSE stack, Frame(tag))

\* an end tag closes the innermost open element of its name, if there is one
CloseElement(stack, tag) ==
    IF IsOpen(stack, tag) THEN PopTo(stack, tag) ELSE stack

\* a node handled by the rules of "in head" goes to head before the body is
\* open, and to the current node after
AddHeadNode(st, node, where) ==
    IF where = "head" THEN [st EXCEPT !.head = Append(@, node)]
    ELSE [st EXCEPT !.stack = AddToTop(@, node)]

\* the end of a script element: it goes where its start tag was read
CloseScript(st) ==
    [AddHeadNode(st, Elem("script", st.script), st.scriptIn)
        EXCEPT !.mode = st.orig, !.script = <<>>]

\* the end of the input: the document with its html, head and body elements,
\* which are there whether the input had their tags or not
Finish(st) ==
    Document(<<Elem("html",
        <<Elem("head", st.head),
          Elem("body", IF st.stack = <<>> THEN <<>>
                       ELSE PopAll(st.stack)[1].kids)>>)>>)

\* the tokens from the i-th on, in the insertion mode of st; a token that a
\* mode hands on to the next mode is read again there
RECURSIVE ParseTokens(_, _, _)
ParseTokens(toks, i, st) ==
    IF i > Len(toks)
    THEN Finish(IF st.mode = "text" THEN CloseScript(st) ELSE st)
    ELSE LET tok == toks[i]
             where == IF st.stack = <<>> THEN "head" ELSE "body"
         IN  CASE st.mode = "text" /\ tok = "</script>" ->
                    ParseTokens(toks, i + 1, CloseScript(st))
               [] st.mode = "text" /\ tok # "</script>" ->
                    ParseTokens(toks, i + 1,
                        [st EXCEPT !.script = Append(@, Text(tok))])
               [] st.mode # "text" /\ tok = "<html>" ->
                    ParseTokens(toks, i + 1, st)
               [] st.mode \in {"in head", "after head", "in body"}
                    /\ tok = "<script>" ->
                    ParseTokens(toks, i + 1,
                        [st EXCEPT !.mode = "text", !.orig = st.mode,
                                   !.scriptIn = where])
               [] st.mode \in {"in head", "after head", "in body"}
                    /\ tok = "<meta>" ->
                    ParseTokens(toks, i + 1,
                        AddHeadNode(st, Elem("meta", <<>>), where))
               [] st.mode = "before head" /\ tok = "<head>" ->
                    ParseTokens(toks, i + 1, [st EXCEPT !.mode = "in head"])
               [] st.mode = "before head" /\ tok \notin {"<html>", "<head>"} ->
                    ParseTokens(toks, i, [st EXCEPT !.mode = "in head"])
               [] st.mode = "in head" /\ tok = "</head>" ->
                    ParseTokens(toks, i + 1, [st EXCEPT !.mode = "after head"])
               [] st.mode = "in head" /\ tok = "<head>" ->
                    ParseTokens(toks, i + 1, st)
               [] st.mode = "in head"
                    /\ tok \notin HeadTags \cup {"<html>", "<head>", "</head>"} ->
                    ParseTokens(toks, i, [st EXCEPT !.mode = "after head"])
               [] st.mode = "after head" /\ tok = "<body>" ->
                    ParseTokens(toks, i + 1,
                        [st EXCEPT !.mode = "in body", !.stack = <<Frame("body")>>])
               [] st.mode = "after head" /\ tok \in {"<head>", "</head>"} ->
                    ParseTokens(toks, i + 1, st)
               [] st.mode = "after head"
                    /\ tok \notin HeadTags \cup {"<html>", "<body>", "<head>",
                                                 "</head>"} ->
                    ParseTokens(toks, i,
                        [st EXCEPT !.mode = "in body", !.stack = <<Frame("body")>>])
               [] st.mode = "in body"
                    /\ tok \in {"<head>", "</head>", "<body>", "</body>",
                                "</html>", "</script>"} ->
                    ParseTokens(toks, i + 1, st)
               [] st.mode = "in body" /\ tok \in {StartTag(c) : c \in Containers} ->
                    ParseTokens(toks, i + 1,
                        [st EXCEPT !.stack = OpenElement(@,
                            CHOOSE c \in Containers : StartTag(c) = tok)])
               [] st.mode = "in body" /\ tok \in {EndTag(c) : c \in Containers} ->
                    ParseTokens(toks, i + 1,
                        [st EXCEPT !.stack = CloseElement(@,
                            CHOOSE c \in Containers : EndTag(c) = tok)])
               [] OTHER ->
                    ParseTokens(toks, i + 1,
                        [st EXCEPT !.stack = AddToTop(@, Text(tok))])

Parse(input) == ParseTokens(input, 1, StartParser)

RECURSIVE removeMetaNodes(_)
RECURSIVE newChildren(_, _)
RECURSIVE newChildrenTopOnly(_, _)
\* newChildren without the recursion into the remaining children
newChildrenTopOnly(kids, i) ==
    IF i > Len(kids) THEN <<>>
    ELSE IF kids[i].Type = "Element" /\ kids[i].Data = "meta"
         THEN newChildrenTopOnly(kids, i + 1)
         ELSE <<kids[i]>> \o newChildrenTopOnly(kids, i + 1)

\* lines 324-331 and 345-347: the children that are not <meta> elements, in
\* order, each with removeMetaNodes applied to it
newChildren(kids, i) ==
    IF i > Len(kids) THEN <<>>
    ELSE IF kids[i].Type = "Element" /\ kids[i].Data = "meta"
         THEN newChildren(kids, i + 1)
         ELSE <<removeMetaNodes(kids[i])>> \o newChildren(kids, i + 1)

\* the node with its child list rebuilt from newChildren
removeMetaNodes(n) == [n EXCEPT !.Children = newChildren(n.Children, 1)]

RECURSIVE findBodyIn(_, _)
RECURSIVE findBody(_)
\* the first element named body in document order, as a sequence of 0 or 1 node
findBody(n) ==
    IF n.Type = "Element" /\ n.Data = "body" THEN <<n>>
    ELSE findBodyIn(n.Children, 1)
findBodyIn(kids, i) ==
    IF i > Len(kids) THEN <<>>
    ELSE LET found == findBody(kids[i])
         IN  IF found # <<>> THEN found ELSE findBodyIn(kids, i + 1)

RECURSIVE Render(_)
RECURSIVE RenderAll(_, _)
\* html.Render as a sequence of tags and text runs; meta is a void element
Render(n) ==
    IF n.Type = "Text" THEN <<n.Data>>
    ELSE IF n.Data = "meta" THEN <<StartTag("meta")>>
    ELSE <<StartTag(n.Data)>> \o RenderAll(n.Children, 1) \o <<EndTag(n.Data)>>
RenderAll(kids, i) ==
    IF i > Len(kids) THEN <<>>
    ELSE Render(kids[i]) \o RenderAll(kids, i + 1)

\* extractBody: parse, find the body, remove the meta elements under it and
\* render its children; without a body the input itself is returned
extractBody(input) ==
    LET body == findBody(Parse(input))
    IN  IF body = <<>> THEN input
        ELSE RenderAll(removeMetaNodes(body[1]).Children, 1)

Empty == <<>>

\* lines 212 and 242: currentContent := extractBody(string(bodyBytes)), with
\* extractBody tabulated over the bodies a fetch can return
canonical == [d \in Docs \cup {NoDoc} |-> extractBody(d)]
CurrentContent(r) == canonical[r.body]

\* ------------------------------------------------------------------ state
VARIABLES
    monitored_urls,   \* table monitored_urls: id -> row (present or not)
    url_snapshots,    \* table url_snapshots, in insertion order
    url_last_check,   \* table url_last_check: id -> age of last_check, or NoRow
    nextUrlId,        \* AUTOINCREMENT of monitored_urls
    nextSnapId,       \* AUTOINCREMENT of url_snapshots
    mu,               \* the write mutex: who holds it
    pc,               \* per target id: where its monitorURL goroutine is
    m,                \* per loop: the MonitoredURL it was started with
    lastContent,      \* per loop: the comparison cache
    currentContent,   \* per loop: the content being saved
    resp,             \* per loop: what fetchURL and ReadAll returned
    sleepLeft,        \* per loop: time left of the catch-up time.Sleep
    ticker,           \* per loop: time to the ticker's next tick (0: no ticker)
    tickC,            \* per loop: a tick is waiting in ticker.C
    pushCalls,        \* per loop: sendPushoverNotification calls in this cycle
    err,              \* per loop: monitorURL's err after the last_check query
    pushErr,          \* per loop: shouldSendPush's err in this cycle
    req,              \* per request slot: the admin handler running in it
    deleted,          \* ids once inserted for which deleteURLHandler has done
                      \* both DELETEs
    clock,            \* the wall clock read by time.Now(): the latest timestamp
                      \* stored, and whether the clock has moved on since
    norm,             \* extractBody on its own: an input, what a call returned
                      \* and what the call before it returned
    loops             \* per target id: the monitorURL goroutines started with
                      \* that id in this run of the process (none ever returns)

vars == <<monitored_urls, url_snapshots, url_last_check, nextUrlId, nextSnapId,
          mu, pc, m, lastContent, currentContent, resp, sleepLeft, ticker,
          tickC, pushCalls, err, pushErr, req, deleted, clock, norm, loops>>

dbVars == <<monitored_urls, url_snapshots, url_last_check, nextUrlId, nextSnapId>>

Free == [kind |-> "free", id |-> 0]
ByLoop(t) == [kind |-> "loop", id |-> t]
ByReq(r) == [kind |-> "req", id |-> r]

\* extractBody has not been called on its own
NoCall == [input |-> <<>>, calls |-> 0, before |-> <<>>, output |-> <<>>]

NoResp == [err |-> "none", status |-> 0, body |-> NoDoc]
Responses ==
    {[err |-> "transport", status |-> 0, body |-> NoDoc],
     [err |-> "read", status |-> 200, body |-> NoDoc]}
    \cup [err : {"nil"}, status : {200, 500}, body : Docs]

IdleReq == [op |-> "idle", id |-> 0, freq |-> 0, newVal |-> FALSE]
NoTarget == [Frequency |-> 0]
NoUrlRow == [present |-> FALSE, frequency |-> 0, push_enabled |-> FALSE]

\* the snapshots of target t, oldest first
RECURSIVE SnapshotsOf(_, _)
SnapshotsOf(snaps, t) ==
    IF snaps = <<>> THEN <<>>
    ELSE IF snaps[1].url_id = t
         THEN <<snaps[1]>> \o SnapshotsOf(Tail(snaps), t)
         ELSE SnapshotsOf(Tail(snaps), t)

History(t) == SnapshotsOf(url_snapshots, t)

Init ==
    /\ monitored_urls = [t \in UrlIds |-> NoUrlRow]
    /\ url_snapshots = <<>>
    /\ url_last_check = [t \in UrlIds |-> NoRow]
    /\ nextUrlId = 1
    /\ nextSnapId = 1
    /\ mu = Free
    /\ pc = [t \in UrlIds |-> "none"]
    /\ m = [t \in UrlIds |-> NoTarget]
    /\ lastContent = [t \in UrlIds |-> Empty]
    /\ currentContent = [t \in UrlIds |-> Empty]
    /\ resp = [t \in UrlIds |-> NoResp]
    /\ sleepLeft = [t \in UrlIds |-> 0]
    /\ ticker = [t \in UrlIds |-> 0]
    /\ tickC = [t \in UrlIds |-> FALSE]
    /\ pushCalls = [t \in UrlIds |-> 0]
    /\ err = [t \in UrlIds |-> "nil"]
    /\ pushErr = [t \in UrlIds |-> "none"]
    /\ req = [r \in AllReqs |-> IdleReq]
    /\ deleted = {}
    /\ clock = [last |-> 0, moved |-> TRUE]
    /\ norm = NoCall
    /\ loops = [t \in UrlIds |-> 0]

\* ------------------------------------------------------------------ monitorURL
\* SELECT content ... ORDER BY timestamp DESC LIMIT 1, Scan into lastContent:
\* Scan leaves lastContent at "" when there is no row or the query failed.
LoadLastContent(t, queryFails) ==
    IF queryFails \/ History(t) = <<>> THEN Empty
    ELSE History(t)[Len(History(t))].content

\* CatchUpWait sleeping the time elapsed instead of the time left
CatchUpWaitElapsed(t, frequency, queryFails) ==
    IF ~queryFails /\ url_last_check[t] = NoRow THEN 0
    ELSE LET elapsed == IF queryFails THEN MaxAge ELSE url_last_check[t]
         IN  IF elapsed < frequency THEN elapsed ELSE 0

\* SELECT last_check ..., then the test of lines 189-196: the time to sleep.
\* A failed query leaves lastCheck at the zero time, so elapsed is huge.
CatchUpWait(t, frequency, queryFails) ==
    IF ~queryFails /\ url_last_check[t] = NoRow THEN 0
    ELSE LET elapsed == IF queryFails THEN MaxAge ELSE url_last_check[t]
         IN  IF elapsed < frequency THEN frequency - elapsed ELSE 0

\* line 183: err of the last_check query: nil, sql.ErrNoRows or another error
LastCheckErr(t, queryFails) ==
    IF queryFails THEN "error"
    ELSE IF url_last_check[t] = NoRow THEN "norows" ELSE "nil"

\* lines 173-196: load the baseline and the last check, start the catch-up sleep
InitLoop(t) ==
    /\ pc[t] = "init"
    /\ \E snapFails \in BOOLEAN, checkFails \in BOOLEAN :
         LET waitTime == CatchUpWait(t, m[t].Frequency, checkFails)
         IN  /\ lastContent' = [lastContent EXCEPT ![t] = LoadLastContent(t, snapFails)]
             /\ err' = [err EXCEPT ![t] = LastCheckErr(t, checkFails)]
             /\ sleepLeft' = [sleepLeft EXCEPT ![t] = waitTime]
             /\ pc' = [pc EXCEPT ![t] = IF waitTime > 0 THEN "sleep" ELSE "upd0"]
    /\ UNCHANGED <<dbVars, mu, m, currentContent, resp, ticker, tickC, pushCalls,
                   pushErr, req, deleted, clock, norm, loops>>

\* line 194: time.Sleep(waitTime) returns once waitTime has passed
WakeUp(t) ==
    /\ pc[t] = "sleep"
    /\ sleepLeft[t] = 0
    /\ pc' = [pc EXCEPT ![t] = "upd0"]
    /\ UNCHANGED <<dbVars, mu, m, lastContent, currentContent, resp, sleepLeft,
                   ticker, tickC, pushCalls, err, pushErr, req, deleted, clock, norm, loops>>

\* updateLastCheck going to its db.Exec without mu.Lock()
UpdateLastCheckNoLock(t) ==
    /\ pc[t] \in {"upd0", "upd"}
    /\ pc' = [pc EXCEPT ![t] = IF pc[t] = "upd0" THEN "upd0_cs" ELSE "upd_cs"]
    /\ UNCHANGED <<dbVars, mu, m, lastContent, currentContent, resp, sleepLeft,
                   ticker, tickC, pushCalls, err, pushErr, req, deleted, clock, norm, loops>>

\* updateLastCheck, mu.Lock()
UpdateLastCheckLock(t) ==
    /\ pc[t] \in {"upd0", "upd"}
    /\ mu = Free
    /\ mu' = ByLoop(t)
    /\ pc' = [pc EXCEPT ![t] = IF pc[t] = "upd0" THEN "upd0_cs" ELSE "upd_cs"]
    /\ UNCHANGED <<dbVars, m, lastContent, currentContent, resp, sleepLeft,
                   ticker, tickC, pushCalls, err, pushErr, req, deleted, clock, norm, loops>>

\* INSERT OR REPLACE INTO url_last_check: the row of t is now of age 0
UpsertLastCheck(t, ok) ==
    IF ok THEN [url_last_check EXCEPT ![t] = 0] ELSE url_last_check

\* updateLastCheck returning with mu still locked
UpdateLastCheckExecKeepLock(t) ==
    /\ pc[t] \in {"upd0_cs", "upd_cs"}
    /\ mu = ByLoop(t)
    /\ \E ok \in BOOLEAN : url_last_check' = UpsertLastCheck(t, ok)
    /\ pc' = [pc EXCEPT ![t] = IF pc[t] = "upd0_cs" THEN "fetch0" ELSE "fetch"]
    /\ UNCHANGED <<monitored_urls, url_snapshots, nextUrlId, nextSnapId, mu, m,
                   lastContent, currentContent, resp, sleepLeft, ticker, tickC,
                   pushCalls, err, pushErr, req, deleted, clock, norm, loops>>

\* updateLastCheck, db.Exec and the deferred mu.Unlock()
UpdateLastCheckExec(t) ==
    /\ pc[t] \in {"upd0_cs", "upd_cs"}
    /\ mu = ByLoop(t)
    /\ \E ok \in BOOLEAN : url_last_check' = UpsertLastCheck(t, ok)
    /\ mu' = Free
    /\ pc' = [pc EXCEPT ![t] = IF pc[t] = "upd0_cs" THEN "fetch0" ELSE "fetch"]
    /\ UNCHANGED <<monitored_urls, url_snapshots, nextUrlId, nextSnapId, m,
                   lastContent, currentContent, resp, sleepLeft, ticker, tickC,
                   pushCalls, err, pushErr, req, deleted, clock, norm, loops>>

\* fetchURL and ioutil.ReadAll return: http.Client.Do gives err = nil for
\* every status code, a transport error otherwise; ReadAll may fail after it.
\* Their err (kept in resp) replaces the one of the last_check query.  The
\* round trip takes time: the clock has moved when it is over.
Fetch(t) ==
    /\ pc[t] \in {"fetch0", "fetch"}
    /\ \E r \in Responses : resp' = [resp EXCEPT ![t] = r]
    /\ err' = [err EXCEPT ![t] = "nil"]
    /\ pc' = [pc EXCEPT ![t] = IF pc[t] = "fetch0" THEN "cmp0" ELSE "cmp"]
    /\ clock' = [clock EXCEPT !.moved = TRUE]
    /\ UNCHANGED <<dbVars, mu, m, lastContent, currentContent, sleepLeft, ticker,
                   tickC, pushCalls, pushErr, req, deleted, norm, loops>>

\* FetchFailed without the check of ReadAll's error
FetchFailedTransportOnly(r) == r.err = "transport"

\* lines 204 and 209, 231 and 237: the cycle is given up on err != nil only
FetchFailed(r) == r.err # "nil"

\* Changed with the comparison inverted
ChangedInverted(cur, last) == cur = last

\* Changed taking the empty baseline for "no snapshot yet: always write"
ChangedOrEmptyBaseline(cur, last) == cur # last \/ last = Empty

\* lines 213 and 243
Changed(cur, last) == cur # last

\* line 222: time.NewTicker(m.Frequency)
NewTicker(t) ==
    /\ ticker' = [ticker EXCEPT ![t] = m[t].Frequency]
    /\ tickC' = [tickC EXCEPT ![t] = FALSE]

\* lines 203-220: the initial check
CompareInitial(t) ==
    /\ pc[t] = "cmp0"
    /\ resp' = [resp EXCEPT ![t] = NoResp]
    /\ IF ~FetchFailed(resp[t]) /\ Changed(CurrentContent(resp[t]), lastContent[t])
       THEN /\ lastContent' = [lastContent EXCEPT ![t] = CurrentContent(resp[t])]
            /\ currentContent' = [currentContent EXCEPT ![t] = CurrentContent(resp[t])]
            /\ pc' = [pc EXCEPT ![t] = "save0"]
            /\ UNCHANGED <<ticker, tickC>>
       ELSE /\ pc' = [pc EXCEPT ![t] = "wait"]
            /\ NewTicker(t)
            /\ UNCHANGED <<lastContent, currentContent>>
    /\ UNCHANGED <<dbVars, mu, m, sleepLeft, pushCalls, err, pushErr, req, deleted, clock, norm, loops>>

\* CompareTick returning from monitorURL when the fetch or the read failed
CompareTickReturnOnError(t) ==
    /\ pc[t] = "cmp"
    /\ resp' = [resp EXCEPT ![t] = NoResp]
    /\ IF FetchFailed(resp[t])
       THEN /\ pc' = [pc EXCEPT ![t] = "none"]
            /\ UNCHANGED <<lastContent, currentContent>>
       ELSE IF Changed(CurrentContent(resp[t]), lastContent[t])
       THEN /\ lastContent' = [lastContent EXCEPT ![t] = CurrentContent(resp[t])]
            /\ currentContent' = [currentContent EXCEPT ![t] = CurrentContent(resp[t])]
            /\ pc' = [pc EXCEPT ![t] = "save"]
       ELSE /\ pc' = [pc EXCEPT ![t] = "wait"]
            /\ UNCHANGED <<lastContent, currentContent>>
    /\ UNCHANGED <<dbVars, mu, m, sleepLeft, ticker, tickC, pushCalls, err, pushErr, req, deleted, clock, norm, loops>>

\* lines 230-246: the check of one tick
CompareTick(t) ==
    /\ pc[t] = "cmp"
    /\ resp' = [resp EXCEPT ![t] = NoResp]
    /\ IF ~FetchFailed(resp[t]) /\ Changed(CurrentContent(resp[t]), lastContent[t])
       THEN /\ lastContent' = [lastContent EXCEPT ![t] = CurrentContent(resp[t])]
            /\ currentContent' = [currentContent EXCEPT ![t] = CurrentContent(resp[t])]
            /\ pc' = [pc EXCEPT ![t] = "save"]
       ELSE /\ pc' = [pc EXCEPT ![t] = "wait"]
            /\ UNCHANGED <<lastContent, currentContent>>
    /\ UNCHANGED <<dbVars, mu, m, sleepLeft, ticker, tickC, pushCalls, err, pushErr, req, deleted, clock, norm, loops>>

\* saveSnapshot, mu.Lock()
SaveSnapshotLock(t) ==
    /\ pc[t] \in {"save0", "save"}
    /\ mu = Free
    /\ mu' = ByLoop(t)
    /\ pc' = [pc EXCEPT ![t] = IF pc[t] = "save0" THEN "save0_cs" ELSE "save_cs"]
    /\ UNCHANGED <<dbVars, m, lastContent, currentContent, resp, sleepLeft,
                   ticker, tickC, pushCalls, err, pushErr, req, deleted, clock, norm, loops>>

\* TimeNow never passing the latest timestamp stored
TimeNowStopped == clock.last

\* time.Now(): later than the latest timestamp stored if the clock has moved
\* since that one was read, the same reading if not
TimeNow == IF clock.moved THEN clock.last + 1 ELSE clock.last

\* INSERT INTO url_snapshots (url_id, timestamp, content)
InsertSnapshot(snaps, id, urlID, timestamp, content) ==
    Append(snaps, [id |-> id, url_id |-> urlID, timestamp |-> timestamp,
                   content |-> content])

\* saveSnapshot, db.Exec and the deferred mu.Unlock(); the error is only logged.
\* The table holds at most MaxSnapshots rows ever: the insert fails beyond.
SaveSnapshotExec(t) ==
    /\ pc[t] \in {"save0_cs", "save_cs"}
    /\ mu = ByLoop(t)
    /\ \E ok \in BOOLEAN :
         IF ok /\ nextSnapId <= MaxSnapshots
         THEN /\ url_snapshots' = InsertSnapshot(url_snapshots, nextSnapId, t,
                                                 TimeNow, currentContent[t])
              /\ nextSnapId' = nextSnapId + 1
              /\ clock' = [last |-> TimeNow, moved |-> FALSE]
         ELSE UNCHANGED <<url_snapshots, nextSnapId, clock>>
    /\ mu' = Free
    /\ currentContent' = [currentContent EXCEPT ![t] = Empty]
    /\ IF pc[t] = "save0_cs"
       THEN /\ pc' = [pc EXCEPT ![t] = "wait"]
            /\ NewTicker(t)
       ELSE /\ pc' = [pc EXCEPT ![t] = "push"]
            /\ UNCHANGED <<ticker, tickC>>
    /\ UNCHANGED <<monitored_urls, url_last_check, nextUrlId, m, lastContent,
                   resp, sleepLeft, pushCalls, err, pushErr, req, deleted, norm, loops>>

\* shouldSendPush, line 164: Scan's err, set on a failed query and on no row
PushLookupErr(urlID, queryFails) ==
    IF queryFails \/ ~monitored_urls[urlID].present THEN "error" ELSE "nil"

\* shouldSendPush defaulting to false when the lookup fails
shouldSendPushDefaultFalse(urlID, queryFails) ==
    IF queryFails \/ ~monitored_urls[urlID].present THEN FALSE
    ELSE monitored_urls[urlID].push_enabled

\* shouldSendPush answering false for an id without a row
shouldSendPushNoRowFalse(urlID, queryFails) ==
    IF ~monitored_urls[urlID].present THEN FALSE
    ELSE IF queryFails THEN TRUE
    ELSE monitored_urls[urlID].push_enabled

\* shouldSendPush ignoring the stored flag
shouldSendPushAlways(urlID, queryFails) == TRUE

\* shouldSendPush: SELECT push_enabled; true when the lookup fails
shouldSendPush(urlID, queryFails) ==
    IF queryFails \/ ~monitored_urls[urlID].present THEN TRUE
    ELSE monitored_urls[urlID].push_enabled

\* lines 247-249: the notifier is called when shouldSendPush says so
SendPush(t) ==
    /\ pc[t] = "push"
    /\ \E queryFails \in BOOLEAN :
         /\ pushErr' = [pushErr EXCEPT ![t] = PushLookupErr(t, queryFails)]
         /\ pushCalls' = [pushCalls EXCEPT ![t] =
                           IF shouldSendPush(t, queryFails) THEN @ + 1 ELSE @]
    /\ pc' = [pc EXCEPT ![t] = "wait"]
    /\ UNCHANGED <<dbVars, mu, m, lastContent, currentContent, resp, sleepLeft,
                   ticker, tickC, err, req, deleted, clock, norm, loops>>

\* TickRecv going to the fetch without updateLastCheck
TickRecvSkipUpsert(t) ==
    /\ pc[t] = "wait"
    /\ tickC[t]
    /\ tickC' = [tickC EXCEPT ![t] = FALSE]
    /\ pushCalls' = [pushCalls EXCEPT ![t] = 0]
    /\ pushErr' = [pushErr EXCEPT ![t] = "none"]
    /\ pc' = [pc EXCEPT ![t] = "fetch"]
    /\ UNCHANGED <<dbVars, mu, m, lastContent, currentContent, resp, sleepLeft,
                   ticker, err, req, deleted, clock, norm, loops>>

\* line 225: for range ticker.C receives the waiting tick; a new cycle starts
TickRecv(t) ==
    /\ pc[t] = "wait"
    /\ tickC[t]
    /\ tickC' = [tickC EXCEPT ![t] = FALSE]
    /\ pushCalls' = [pushCalls EXCEPT ![t] = 0]
    /\ pushErr' = [pushErr EXCEPT ![t] = "none"]
    /\ pc' = [pc EXCEPT ![t] = "upd"]
    /\ UNCHANGED <<dbVars, mu, m, lastContent, currentContent, resp, sleepLeft,
                   ticker, err, req, deleted, clock, norm, loops>>

\* one unit of time passes: marks age, sleeps run down, tickers tick
Tick ==
    /\ url_last_check' = [t \in UrlIds |->
          IF url_last_check[t] = NoRow THEN NoRow
          ELSE Min(url_last_check[t] + 1, MaxAge)]
    /\ sleepLeft' = [t \in UrlIds |-> Max(sleepLeft[t] - 1, 0)]
    /\ ticker' = [t \in UrlIds |->
          IF ticker[t] = 1 THEN m[t].Frequency ELSE Max(ticker[t] - 1, 0)]
    /\ tickC' = [t \in UrlIds |-> tickC[t] \/ ticker[t] = 1]
    /\ clock' = [clock EXCEPT !.moved = TRUE]
    /\ UNCHANGED <<monitored_urls, url_snapshots, nextUrlId, nextSnapId, mu, pc,
                   m, lastContent, currentContent, resp, pushCalls, err, pushErr,
                   req, deleted, norm, loops>>

\* `go monitorURL(m)`: a goroutine starts at the top of monitorURL
StartLoop(pcs, t) == [pcs EXCEPT ![t] = "init"]

\* ------------------------------------------------------------------ handlers
\* addURLHandler with a valid frequency, up to mu.Lock()
AddLock(r) ==
    /\ req[r].op = "idle"
    /\ mu = Free
    /\ mu' = ByReq(r)
    /\ \E freq \in Frequencies, pushVal \in BOOLEAN :
         req' = [req EXCEPT ![r] = [op |-> "add", id |-> 0, freq |-> freq,
                                    newVal |-> pushVal]]
    /\ UNCHANGED <<dbVars, pc, m, lastContent, currentContent, resp, sleepLeft,
                   ticker, tickC, pushCalls, err, pushErr, deleted, clock, norm, loops>>

\* LastInsertId for a table whose id is a plain rowid: one more than the
\* largest id in the table now
LastInsertIdReused ==
    IF \E t \in UrlIds : monitored_urls[t].present
    THEN 1 + CHOOSE t \in UrlIds :
                 /\ monitored_urls[t].present
                 /\ \A u \in UrlIds : monitored_urls[u].present => u <= t
    ELSE 1

\* res.LastInsertId() of the INSERT: monitored_urls.id is INTEGER PRIMARY KEY
\* AUTOINCREMENT, one more than the largest id the table has ever held
LastInsertId == nextUrlId

\* addURLHandler: INSERT INTO monitored_urls, mu.Unlock(), go monitorURL(m).
\* The table takes at most maxRows rows ever: the insert fails beyond.
AddInsert(r, maxRows) ==
    /\ req[r].op = "add"
    /\ mu = ByReq(r)
    /\ \E ok \in BOOLEAN :
         IF ok /\ LastInsertId <= maxRows
         THEN /\ monitored_urls' = [monitored_urls EXCEPT ![LastInsertId] =
                    [present |-> TRUE, frequency |-> req[r].freq,
                     push_enabled |-> req[r].newVal]]
              /\ nextUrlId' = Max(nextUrlId, LastInsertId + 1)
              /\ m' = [m EXCEPT ![LastInsertId] = [Frequency |-> req[r].freq]]
              /\ pc' = StartLoop(pc, LastInsertId)
              /\ loops' = [loops EXCEPT ![LastInsertId] = @ + 1]
         ELSE UNCHANGED <<monitored_urls, nextUrlId, m, pc, loops>>
    /\ mu' = Free
    /\ req' = [req EXCEPT ![r] = IdleReq]
    /\ UNCHANGED <<url_snapshots, url_last_check, nextSnapId, lastContent,
                   currentContent, resp, sleepLeft, ticker, tickC, pushCalls, err, pushErr,
                   deleted, clock, norm>>

AddExec(r) == AddInsert(r, MaxTargets)

\* deleteURLHandler with a numeric id, up to mu.Lock()
DeleteLock(r) ==
    /\ req[r].op = "idle"
    /\ mu = Free
    /\ mu' = ByReq(r)
    /\ \E id \in UrlIds :
         req' = [req EXCEPT ![r] = [op |-> "delete", id |-> id, freq |-> 0,
                                    newVal |-> FALSE]]
    /\ UNCHANGED <<dbVars, pc, m, lastContent, currentContent, resp, sleepLeft,
                   ticker, tickC, pushCalls, err, pushErr, deleted, clock, norm, loops>>

\* DELETE FROM monitored_urls WHERE id = ?
DeleteUrlRow(rows, id) == [rows EXCEPT ![id] = NoUrlRow]

\* deleteURLHandler: the first DELETE; on an error mu.Unlock() and return
DeleteUrl(r) ==
    /\ req[r].op = "delete"
    /\ mu = ByReq(r)
    /\ \E ok \in BOOLEAN :
         IF ok
         THEN /\ monitored_urls' = DeleteUrlRow(monitored_urls, req[r].id)
              /\ req' = [req EXCEPT ![r].op = "delete_snapshots"]
              /\ UNCHANGED mu
         ELSE /\ mu' = Free
              /\ req' = [req EXCEPT ![r] = IdleReq]
              /\ UNCHANGED monitored_urls
    /\ UNCHANGED <<url_snapshots, url_last_check, nextUrlId, nextSnapId, pc, m,
                   lastContent, currentContent, resp, sleepLeft, ticker, tickC,
                   pushCalls, err, pushErr, deleted, clock, norm, loops>>

\* DELETE FROM url_snapshots WHERE url_id = ?
DeleteSnapshotRows(snaps, id) == SelectSeq(snaps, LAMBDA s : s.url_id # id)

\* deleteURLHandler: the second DELETE (its error is only logged), mu.Unlock()
\* and the redirect; with both DELETEs done the target counts as deleted
DeleteSnapshots(r) ==
    /\ req[r].op = "delete_snapshots"
    /\ mu = ByReq(r)
    /\ \E ok \in BOOLEAN :
         /\ url_snapshots' = IF ok THEN DeleteSnapshotRows(url_snapshots, req[r].id)
                             ELSE url_snapshots
         /\ deleted' = IF ok /\ req[r].id < nextUrlId
                        THEN deleted \cup {req[r].id} ELSE deleted
    /\ mu' = Free
    /\ req' = [req EXCEPT ![r] = IdleReq]
    /\ UNCHANGED <<monitored_urls, url_last_check, nextUrlId, nextSnapId, pc, m,
                   lastContent, currentContent, resp, sleepLeft, ticker, tickC,
                   pushCalls, err, pushErr, clock, norm, loops>>

\* togglePushHandler: SELECT push_enabled (not under mu) and the new value;
\* without a row, or on a query error, the handler answers 404 and is done
ToggleRead(r) ==
    /\ req[r].op = "idle"
    /\ \E id \in UrlIds :
         /\ monitored_urls[id].present
         /\ req' = [req EXCEPT ![r] = [op |-> "toggle", id |-> id, freq |-> 0,
                       newVal |-> ~monitored_urls[id].push_enabled]]
    /\ UNCHANGED <<dbVars, mu, pc, m, lastContent, currentContent, resp,
                   sleepLeft, ticker, tickC, pushCalls, err, pushErr, deleted, clock, norm, loops>>

\* togglePushHandler, mu.Lock()
ToggleLock(r) ==
    /\ req[r].op = "toggle"
    /\ mu = Free
    /\ mu' = ByReq(r)
    /\ req' = [req EXCEPT ![r].op = "toggle_cs"]
    /\ UNCHANGED <<dbVars, pc, m, lastContent, currentContent, resp, sleepLeft,
                   ticker, tickC, pushCalls, err, pushErr, deleted, clock, norm, loops>>

\* UPDATE monitored_urls SET push_enabled = ? WHERE id = ?
UpdatePush(rows, id, newVal) ==
    IF rows[id].present THEN [rows EXCEPT ![id].push_enabled = newVal] ELSE rows

\* togglePushHandler: the UPDATE and mu.Unlock(); err decides the answer
ToggleExec(r) ==
    /\ req[r].op = "toggle_cs"
    /\ mu = ByReq(r)
    /\ \E ok \in BOOLEAN :
         /\ monitored_urls' = IF ok THEN UpdatePush(monitored_urls, req[r].id, req[r].newVal)
                              ELSE monitored_urls
         /\ req' = [req EXCEPT ![r].op = IF ok THEN "toggle_ok" ELSE "toggle_err"]
    /\ mu' = Free
    /\ UNCHANGED <<url_snapshots, url_last_check, nextUrlId, nextSnapId, pc, m,
                   lastContent, currentContent, resp, sleepLeft, ticker, tickC,
                   pushCalls, err, pushErr, deleted, clock, norm, loops>>

\* togglePushHandler: the answer, "Database error" when the UPDATE failed and
\* the redirect when it did not; the request is over
ToggleRespond(r) ==
    /\ req[r].op \in {"toggle_ok", "toggle_err"}
    /\ req' = [req EXCEPT ![r] = IdleReq]
    /\ UNCHANGED <<dbVars, mu, pc, m, lastContent, currentContent, resp,
                   sleepLeft, ticker, tickC, pushCalls, err, pushErr, deleted,
                   clock, norm, loops>>

\* ------------------------------------------------------------------ main
\* The process stops (all goroutines and requests with it, mu with them) and
\* main runs again: one monitorURL per row of monitored_urls.
Restart ==
    /\ mu' = Free
    /\ req' = [r \in AllReqs |-> IdleReq]
    /\ pc' = [t \in UrlIds |-> IF monitored_urls[t].present THEN "init" ELSE "none"]
    /\ m' = [t \in UrlIds |->
               IF monitored_urls[t].present
               THEN [Frequency |-> monitored_urls[t].frequency] ELSE NoTarget]
    /\ lastContent' = [t \in UrlIds |-> Empty]
    /\ currentContent' = [t \in UrlIds |-> Empty]
    /\ resp' = [t \in UrlIds |-> NoResp]
    /\ sleepLeft' = [t \in UrlIds |-> 0]
    /\ ticker' = [t \in UrlIds |-> 0]
    /\ tickC' = [t \in UrlIds |-> FALSE]
    /\ pushCalls' = [t \in UrlIds |-> 0]
    /\ err' = [t \in UrlIds |-> "nil"]
    /\ pushErr' = [t \in UrlIds |-> "none"]
    /\ loops' = [t \in UrlIds |-> IF monitored_urls[t].present THEN 1 ELSE 0]
    /\ UNCHANGED <<dbVars, deleted, clock, norm>>

LoopStep(t) ==
    \/ InitLoop(t)
    \/ WakeUp(t)
    \/ UpdateLastCheckLock(t)
    \/ UpdateLastCheckExec(t)
    \/ Fetch(t)
    \/ CompareInitial(t)
    \/ CompareTick(t)
    \/ SaveSnapshotLock(t)
    \/ SaveSnapshotExec(t)
    \/ SendPush(t)
    \/ TickRecv(t)

HandlerStep(r) ==
    \/ AddLock(r)
    \/ AddExec(r)
    \/ DeleteLock(r)
    \/ DeleteUrl(r)
    \/ DeleteSnapshots(r)
    \/ ToggleRead(r)
    \/ ToggleLock(r)
    \/ ToggleExec(r)
    \/ ToggleRespond(r)

Next ==
    \/ \E t \in UrlIds : LoopStep(t)
    \/ \E r \in Reqs : HandlerStep(r)
    \/ Tick
    \/ Restart

Spec == Init /\ [][Next]_vars

\* the fairness of the scheduler: time passes, and a goroutine that can take
\* a step (its fetch returns, the mutex it waits for is free) takes it
Fairness == WF_vars(Tick) /\ \A t \in UrlIds : WF_vars(LoopStep(t))

FairSpec == Spec /\ Fairness

\* ------------------------------------------------------------------ loops
\* One run of main on a store that holds a row for every id of UrlIds, all
\* of one frequency and with push enabled, each with no LastCheckMark or one
\* that is 1 old, and no snapshot: main has started a monitorURL for each row
\* (line 108).  The server of target
\* Stalled never answers: the fetch of that loop does not return.
Stalled == MaxLoops

LoopsInit ==
    /\ \E f \in Frequencies :
         /\ monitored_urls = [t \in UrlIds |->
                [present |-> TRUE, frequency |-> f, push_enabled |-> TRUE]]
         /\ m = [t \in UrlIds |-> [Frequency |-> f]]
    /\ url_snapshots = <<>>
    /\ url_last_check \in [UrlIds -> {NoRow, 1}]
    /\ nextUrlId = MaxLoops + 1
    /\ nextSnapId = 1
    /\ mu = Free
    /\ pc = [t \in UrlIds |-> StartLoop([u \in UrlIds |-> "none"], t)[t]]
    /\ lastContent = [t \in UrlIds |-> Empty]
    /\ currentContent = [t \in UrlIds |-> Empty]
    /\ resp = [t \in UrlIds |-> NoResp]
    /\ sleepLeft = [t \in UrlIds |-> 0]
    /\ ticker = [t \in UrlIds |-> 0]
    /\ tickC = [t \in UrlIds |-> FALSE]
    /\ pushCalls = [t \in UrlIds |-> 0]
    /\ err = [t \in UrlIds |-> "nil"]
    /\ pushErr = [t \in UrlIds |-> "none"]
    /\ req = [r \in AllReqs |-> IdleReq]
    /\ deleted = {}
    /\ clock = [last |-> 0, moved |-> TRUE]
    /\ norm = NoCall
    /\ loops = [t \in UrlIds |-> 1]

\* a step of the loop of t that can happen: every step, but for the return
\* of a fetch from the server that never answers
LoopRun(t) == LoopStep(t) /\ ~(t = Stalled /\ pc[t] \in {"fetch0", "fetch"})

LoopsNext ==
    \/ \E t \in UrlIds : LoopRun(t)
    \/ Tick

\* the fairness of the loops: time passes; a goroutine that can go on does (a
\* fetch that is answered returns, a db.Exec returns and mu is unlocked after
\* it); a goroutine blocked in mu.Lock() gets the mutex when it is unlocked
\* again and again (sync.Mutex hands the lock to a starving waiter)
LoopsFairness == WF_vars(Tick) /\ \A t \in UrlIds : SF_vars(LoopRun(t))

LoopsSpec == LoopsInit /\ [][LoopsNext]_vars /\ LoopsFairness

\* ------------------------------------------------------------------ targets
\* The program with room for a row for every id of UrlIds, while no server
\* answers: every monitorURL gets to its initial fetch, which does not return.
AddExecMore(r) == AddInsert(r, MaxLoops)

StartStep(t) ==
    \/ InitLoop(t)
    \/ WakeUp(t)
    \/ UpdateLastCheckLock(t)
    \/ UpdateLastCheckExec(t)

TargetsHandlerStep(r) ==
    \/ AddLock(r)
    \/ AddExecMore(r)
    \/ DeleteLock(r)
    \/ DeleteUrl(r)
    \/ DeleteSnapshots(r)
    \/ ToggleRead(r)
    \/ ToggleLock(r)
    \/ ToggleExec(r)
    \/ ToggleRespond(r)

TargetsNext ==
    \/ \E t \in UrlIds : StartStep(t)
    \/ \E r \in Reqs : TargetsHandlerStep(r)
    \/ Tick
    \/ Restart

TargetsSpec == Init /\ [][TargetsNext]_vars

\* ------------------------------------------------------------------ toggles
\* One run of main on the store of LoopsInit, no server answering, with
\* togglePushHandler requests only, up to MaxReqs of them at a time (net/http
\* serves every request in a goroutine of its own).
ToggleStep(r) ==
    \/ ToggleRead(r)
    \/ ToggleLock(r)
    \/ ToggleExec(r)
    \/ ToggleRespond(r)

TogglesNext ==
    \/ \E t \in UrlIds : StartStep(t)
    \/ \E r \in AllReqs : ToggleStep(r)
    \/ Tick

TogglesSpec == LoopsInit /\ [][TogglesNext]_vars

\* ------------------------------------------------------------------ extractBody
\* extractBody on its own.  The inputs: documents whose body holds up to
\* MaxKids nodes, each a text, a meta, a script or a div or p with up to
\* MaxKids texts, metas and scripts in it, with a meta in the head or not, as
\* the string with all its tags and as the string of the body's content alone.
SeqsOf(S) == UNION {[1..n -> S] : n \in 0..MaxKids}
Leaves == {Text("A"), Elem("meta", <<>>), Elem("script", <<Text("x")>>)}
Nodes == Leaves \cup {Elem(c, kids) : c \in Containers, kids \in SeqsOf(Leaves)}
Page(head, kids) ==
    <<"<html>", "<head>">> \o RenderAll(head, 1) \o <<"</head>", "<body>">>
        \o RenderAll(kids, 1) \o <<"</body>", "</html>">>
NormInputs ==
    {Page(head, kids) : head \in {<<>>, <<Elem("meta", <<>>)>>},
                        kids \in SeqsOf(Nodes)}
        \cup {RenderAll(kids, 1) : kids \in SeqsOf(Nodes)}

NormInit ==
    /\ norm \in [input : NormInputs, calls : {0}, before : {<<>>}, output : {<<>>}]
    /\ monitored_urls = [t \in UrlIds |-> NoUrlRow]
    /\ url_snapshots = <<>>
    /\ url_last_check = [t \in UrlIds |-> NoRow]
    /\ nextUrlId = 1
    /\ nextSnapId = 1
    /\ mu = Free
    /\ pc = [t \in UrlIds |-> "none"]
    /\ m = [t \in UrlIds |-> NoTarget]
    /\ lastContent = [t \in UrlIds |-> Empty]
    /\ currentContent = [t \in UrlIds |-> Empty]
    /\ resp = [t \in UrlIds |-> NoResp]
    /\ sleepLeft = [t \in UrlIds |-> 0]
    /\ ticker = [t \in UrlIds |-> 0]
    /\ tickC = [t \in UrlIds |-> FALSE]
    /\ pushCalls = [t \in UrlIds |-> 0]
    /\ err = [t \in UrlIds |-> "nil"]
    /\ pushErr = [t \in UrlIds |-> "none"]
    /\ req = [r \in AllReqs |-> IdleReq]
    /\ deleted = {}
    /\ clock = [last |-> 0, moved |-> TRUE]
    /\ loops = [t \in UrlIds |-> 0]

\* a call of extractBody: the first on the input, a later one on what the
\* call before it returned
ExtractBodyCall ==
    /\ norm.calls < MaxCalls
    /\ LET arg == IF norm.calls = 0 THEN norm.input ELSE norm.output
       IN  norm' = [input |-> norm.input, calls |-> norm.calls + 1,
                    before |-> arg, output |-> extractBody(arg)]
    /\ UNCHANGED <<dbVars, mu, pc, m, lastContent, currentContent, resp,
                   sleepLeft, ticker, tickC, pushCalls, err, pushErr, req,
                   deleted, clock, loops>>

NormNext == ExtractBodyCall

NormSpec == NormInit /\ [][NormNext]_vars

\* ------------------------------------------------------------------ properties
\* steps of the loop of t, told by where the loop is before and after
CompareStep(t) ==
    pc[t] \in {"cmp0", "cmp"} /\ pc'[t] \in {"save0", "save", "wait"}
SaveStep(t) ==
    pc[t] \in {"save0_cs", "save_cs"} /\ pc'[t] \in {"wait", "push"}
InitStep(t) ==
    pc[t] = "init" /\ pc'[t] \in {"sleep", "upd0"}
Contents(h) == [i \in 1..Len(h) |-> h[i].content]
ContentA == extractBody(DocA)
ContentB == extractBody(DocB)

\* C1: for every target, no two snapshots adjacent in its history have
\* identical content, in every reachable state of the store.
C1_NoAdjacentDuplicates ==
    \A t \in UrlIds : \A i \in 1..(Len(History(t)) - 1) :
        History(t)[i].content # History(t)[i + 1].content

\* C2: a cycle whose fetch succeeded goes on to insert exactly when the
\* fetched canonical content differs from lastContent, and a successful
\* insert appends exactly one snapshot of the target holding that content;
\* nothing but that insert adds a snapshot.
C2_InsertsExactlyOnDifference ==
    [][\A t \in UrlIds :
        /\ (CompareStep(t) /\ resp[t].err = "nil") =>
              IF extractBody(resp[t].body) = lastContent[t]
              THEN pc'[t] = "wait" /\ url_snapshots' = url_snapshots
              ELSE /\ pc'[t] \in {"save0", "save"}
                   /\ currentContent'[t] = extractBody(resp[t].body)
                   /\ url_snapshots' = url_snapshots
        /\ SaveStep(t) =>
              \/ url_snapshots' = url_snapshots
              \/ url_snapshots' = Append(url_snapshots,
                     [id |-> nextSnapId, url_id |-> t, timestamp |-> TimeNow,
                      content |-> currentContent[t]])
        /\ Len(SnapshotsOf(url_snapshots', t)) > Len(History(t)) => SaveStep(t)
      ]_vars

\* the fetched sequence A, A, B has given the history A, B
C2_Witness ==
    \E t \in UrlIds :
        /\ pc[t] = "push"
        /\ Contents(History(t)) = <<ContentA, ContentB>>
        /\ lastContent[t] = ContentB

\* C3: a cycle whose fetch gave a transport error or whose body could not be
\* read inserts no snapshot, calls no notifier, leaves lastContent as it was
\* and ends waiting for the next tick of a running ticker.
C3_FailedFetchChangesNothing ==
    [][\A t \in UrlIds :
        /\ (pc[t] \in {"fetch0", "fetch"} /\ pc'[t] \in {"cmp0", "cmp"}) =>
              /\ url_snapshots' = url_snapshots
              /\ lastContent'[t] = lastContent[t]
              /\ pushCalls'[t] = pushCalls[t]
        /\ (pc[t] \in {"cmp0", "cmp"} /\ resp[t].err \in {"transport", "read"}
                /\ pc'[t] \notin {pc[t], "init", "none"}) =>
              /\ url_snapshots' = url_snapshots
              /\ lastContent'[t] = lastContent[t]
              /\ pushCalls'[t] = 0
              /\ pc'[t] = "wait"
              /\ ticker'[t] >= 1
      ]_vars

\* a tick's fetch has failed for a target that has a snapshot
C3_Witness ==
    \E t \in UrlIds :
        /\ pc[t] = "cmp"
        /\ resp[t].err = "transport"
        /\ History(t) # <<>>

\* C4: a cycle whose fetch got a response with a status that is not 2xx
\* inserts no snapshot, leaves lastContent unchanged and calls no notifier.
C4_Non2xxAborts ==
    [][\A t \in UrlIds :
        (pc[t] \in {"cmp0", "cmp"} /\ resp[t].err = "nil"
            /\ resp[t].status \notin 200..299
            /\ pc'[t] \notin {pc[t], "init", "none"}) =>
              /\ pc'[t] = "wait"
              /\ lastContent'[t] = lastContent[t]
              /\ url_snapshots' = url_snapshots
      ]_vars

C6_FirstFetchAlwaysWrites ==
    [][\A t \in UrlIds :
        (CompareStep(t) /\ resp[t].err = "nil" /\ monitored_urls[t].present
            /\ History(t) = <<>> /\ lastContent[t] = Empty) =>
              pc'[t] \in {"save0", "save"}
      ]_vars

\* C6 amended: with no snapshot of the target and the empty baseline, a
\* successful fetch goes on to write a first snapshot exactly when the fetched
\* canonical content is not the empty string, and the insert, when it
\* succeeds, makes that content the target's only snapshot.
C6_FirstFetchWritesUnlessEmpty ==
    [][\A t \in UrlIds :
        /\ (CompareStep(t) /\ resp[t].err = "nil" /\ monitored_urls[t].present
               /\ History(t) = <<>> /\ lastContent[t] = Empty) =>
              /\ pc'[t] \in {"save0", "save"} <=> extractBody(resp[t].body) # Empty
              /\ pc'[t] = "wait" => url_snapshots' = url_snapshots
              /\ pc'[t] \in {"save0", "save"} =>
                    currentContent'[t] = extractBody(resp[t].body)
        /\ (SaveStep(t) /\ History(t) = <<>>) =>
              \/ url_snapshots' = url_snapshots
              \/ Contents(SnapshotsOf(url_snapshots', t)) = <<currentContent[t]>>
      ]_vars

\* the first fetch of a target without snapshots has returned an empty body
C6_Witness ==
    \E t \in UrlIds :
        /\ pc[t] = "cmp0"
        /\ resp[t].err = "nil"
        /\ extractBody(resp[t].body) = Empty
        /\ monitored_urls[t].present
        /\ History(t) = <<>>
        /\ lastContent[t] = Empty

\* C7 as stated: every cycle that found the content different, the immediate
\* one at loop start and the one of each tick, ends with exactly one call of
\* the notifier when notifications are enabled for the target.
C7_EveryChangeNotifies ==
    [][\A t \in UrlIds :
        ((SaveStep(t) \/ (pc[t] = "push" /\ pc'[t] = "wait"))
            /\ pc'[t] = "wait"
            /\ monitored_urls[t].present /\ monitored_urls[t].push_enabled) =>
              pushCalls'[t] = 1
      ]_vars

\* C7 amended: every cycle of a timer tick that found the content different
\* goes on, whether the insert succeeded or not, to the push decision and
\* ends with exactly one call of the notifier when notifications are enabled
\* for the target; the immediate cycle at loop start never calls the notifier.
C7_TickChangeNotifiesOnce ==
    [][\A t \in UrlIds :
        /\ (pc[t] = "cmp" /\ pc'[t] \in {"save", "wait"} /\ resp[t].err = "nil"
               /\ extractBody(resp[t].body) # lastContent[t]) => pc'[t] = "save"
        /\ (pc[t] = "save_cs" /\ pc'[t] \notin {"save_cs", "init", "none"}) =>
              pc'[t] = "push" /\ pushCalls'[t] = 0
        /\ (pc[t] = "push" /\ pc'[t] = "wait"
               /\ monitored_urls[t].present /\ monitored_urls[t].push_enabled) =>
              pushCalls'[t] = 1
        /\ (pc[t] \in {"cmp0", "save0_cs"} /\ pc'[t] = "wait") => pushCalls'[t] = 0
        /\ pushCalls[t] <= 1
      ]_vars

\* a tick's cycle has ended with one call of the notifier
C7_Witness ==
    \E t \in UrlIds :
        /\ pc[t] = "wait"
        /\ pushCalls[t] = 1
        /\ pushErr[t] = "nil"
        /\ monitored_urls[t].push_enabled

\* C8 as stated: the notifier is called only in a cycle that found a
\* difference, and only if the target's push flag is set in the store then.
C8_NotifiesOnlyIfEnabled ==
    [][\A t \in UrlIds :
        pushCalls'[t] > pushCalls[t] =>
            /\ pc[t] = "push"
            /\ monitored_urls[t].present
            /\ monitored_urls[t].push_enabled
      ]_vars

\* C8 amended: the notifier is called only in the push decision of a tick's
\* cycle, which is reached only after a fetch that succeeded with content
\* different from lastContent, and only if then the target's push flag is set
\* in the store or its lookup fails (a query error, or no row for the id);
\* when the lookup succeeds and the flag is off, the notifier is not called.
C8_NotifiesOnlyIfEnabledOrLookupFails ==
    [][\A t \in UrlIds :
        /\ pushCalls'[t] > pushCalls[t] =>
              /\ pc[t] = "push"
              /\ pushCalls[t] = 0
              /\ \/ pushErr'[t] = "error"
                 \/ monitored_urls[t].present /\ monitored_urls[t].push_enabled
        /\ (pc'[t] = "push" /\ pc[t] # "push") => pc[t] = "save_cs"
        /\ (pc'[t] = "save_cs" /\ pc[t] # "save_cs") => pc[t] = "save"
        /\ (pc'[t] = "save" /\ pc[t] # "save") =>
              /\ pc[t] = "cmp"
              /\ resp[t].err = "nil"
              /\ extractBody(resp[t].body) # lastContent[t]
        /\ (pc[t] = "push" /\ pc'[t] = "wait" /\ pushErr'[t] = "nil"
               /\ ~monitored_urls[t].push_enabled) => pushCalls'[t] = 0
      ]_vars

\* a cycle found a change for a target whose push flag is off in the store,
\* read the flag and did not call the notifier
C8_Witness ==
    \E t \in UrlIds :
        /\ pc[t] = "wait"
        /\ pushErr[t] = "nil"
        /\ pushCalls[t] = 0
        /\ monitored_urls[t].present
        /\ ~monitored_urls[t].push_enabled

\* C9: after deleteURLHandler has deleted a target, its loop eventually
\* stops: from some point on it does no fetch, no upsert of the LastCheckMark
\* and no snapshot insert for the deleted id.
C9_DeletedLoopStops ==
    \A t \in UrlIds :
        [](t \in deleted =>
             <>[](pc[t] \notin {"upd0_cs", "upd_cs", "fetch0", "fetch",
                                "save0_cs", "save_cs"}))

\* C10: once deleteURLHandler has completed for a target, the store holds no
\* snapshot of that target, then and ever after.
C10_NoSnapshotOfDeleted ==
    \A t \in deleted : History(t) = <<>>

\* the loops and the requests that are between mu.Lock() and mu.Unlock() of
\* a write: the write statement is theirs to run
LoopWrites(t) == pc[t] \in {"upd0_cs", "upd_cs", "save0_cs", "save_cs"}
ReqWrites(r) == req[r].op \in {"add", "delete", "delete_snapshots", "toggle_cs"}
Writers ==
    {ByLoop(t) : t \in {u \in UrlIds : LoopWrites(u)}}
        \cup {ByReq(r) : r \in {q \in Reqs : ReqWrites(q)}}

C12_LoopSurvivesErrors ==
    /\ [][\A t \in UrlIds : pc[t] # "none" => pc'[t] # "none"]_vars
    /\ \A t \in UrlIds \ {Stalled} :
          []<>(pc[t] = "upd_cs") /\ []<>(pc[t] = "fetch")

\* a tick's fetch has failed in a loop whose LastCheckMark upserts and whose
\* first snapshot insert had failed before
C12_Witness ==
    \E t \in UrlIds :
        /\ pc[t] = "cmp"
        /\ resp[t].err \in {"transport", "read"}
        /\ url_last_check[t] = NoRow
        /\ lastContent[t] # Empty
        /\ History(t) = <<>>

\* C13: a target whose fetch never returns, or that is in its catch-up sleep
\* or timer wait, does not block any other target: a loop holds mu only at a
\* write statement, never during a fetch, a sleep or a timer wait; the loop
\* of the target whose server never answers gets to its fetch and stays in it
\* for ever, and every other loop still ends cycle after cycle while that
\* fetch is pending, under the fairness of the loops.
C13_StalledTargetBlocksNoOther ==
    /\ [](\A t \in UrlIds : mu = ByLoop(t) => LoopWrites(t))
    /\ <>[](pc[Stalled] = "fetch0")
    /\ \A t \in UrlIds \ {Stalled} :
          []<>(pc[t] = "wait" /\ pc[Stalled] = "fetch0")

\* while the fetch of one target is pending, the loop of another, which has
\* stored a snapshot before, is inside saveSnapshot's critical section
C13_Witness ==
    \E t \in UrlIds \ {Stalled} :
        /\ pc[Stalled] = "fetch0"
        /\ pc[t] = "save_cs"
        /\ mu = ByLoop(t)
        /\ History(t) # <<>>

\* C14: for every target, its snapshots are strictly ordered by capture
\* time in the order its loop wrote them, and that order agrees with the
\* snapshot ids: of two snapshots of one target, the one with the greater id
\* has the strictly later timestamp.
C14_SnapshotsStrictlyTimeOrdered ==
    /\ \A t \in UrlIds : \A i \in 1..Len(History(t)), j \in 1..Len(History(t)) :
          i < j => /\ History(t)[i].timestamp < History(t)[j].timestamp
                   /\ History(t)[i].id < History(t)[j].id
    /\ \A i \in 1..Len(url_snapshots), j \in 1..Len(url_snapshots) :
          (url_snapshots[i].url_id = url_snapshots[j].url_id
              /\ url_snapshots[i].id > url_snapshots[j].id)
            => url_snapshots[i].timestamp > url_snapshots[j].timestamp

\* a target has two snapshots, the second written just now
C14_Witness ==
    \E t \in UrlIds :
        /\ Len(History(t)) = 2
        /\ ~clock.moved
        /\ pc[t] \in {"wait", "push"}

\* the body of the parsed input, and the string of its children
BodyOf(input) == findBody(Parse(input))
BodyContent(input) == RenderAll(BodyOf(input)[1].Children, 1)

\* C15: for every document with a body element, extractBody returns the
\* serialized children of the body in which no meta element remains at any
\* depth, and all remaining nodes keep their content and their relative
\* order: the result is the string of the body's children with exactly the
\* meta tags taken out.
C15_BodyWithoutMeta ==
    (norm.calls = 1 /\ BodyOf(norm.input) # <<>>) =>
        /\ \A k \in 1..Len(norm.output) : norm.output[k] # "<meta>"
        /\ norm.output = SelectSeq(BodyContent(norm.input),
                                   LAMBDA tok : tok # "<meta>")

\* extractBody has returned the body of a document that has a meta in its
\* head, one in its body and one inside a div, next to other nodes
C15_Witness ==
    /\ norm.calls = 1
    /\ norm.input = Page(<<Elem("meta", <<>>)>>,
                         <<Elem("meta", <<>>),
                           Elem("div", <<Elem("meta", <<>>), Text("A")>>)>>)
    /\ norm.output = <<"<div>", "A", "</div>">>

\* C16: extractBody is idempotent: for every input x,
\* extractBody(extractBody(x)) equals extractBody(x).
C16_Idempotent ==
    norm.calls = 2 => norm.output = norm.before

\* C17: shouldSendPush returns true whenever the lookup of the target's push
\* flag fails (a query error, or no row for the id) and the stored flag
\* otherwise, so the push decision of a cycle that detected a change calls
\* the notifier when the lookup fails, whatever the stored flag.
C17_PushDefaultsTrueOnLookupFailure ==
    [][\A t \in UrlIds :
        (pc[t] = "push" /\ pc'[t] = "wait") =>
            /\ ~monitored_urls[t].present => pushErr'[t] = "error"
            /\ pushErr'[t] = "error" => pushCalls'[t] = pushCalls[t] + 1
            /\ pushErr'[t] = "nil" =>
                  pushCalls'[t] = pushCalls[t]
                      + (IF monitored_urls[t].push_enabled THEN 1 ELSE 0)
            /\ pushErr'[t] \in {"nil", "error"}
      ]_vars

\* the notifier has been called for a change of a target that has no row any
\* more: its lookup found no row
C17_Witness ==
    \E t \in UrlIds :
        /\ pc[t] = "wait"
        /\ pushErr[t] = "error"
        /\ pushCalls[t] = 1
        /\ ~monitored_urls[t].present

\* C18: the comparison cache lastContent is updated only after a successful
\* snapshot write: when saveSnapshot returns, the cache holds the content
\* just written if the insert succeeded, and then equals the content of the
\* target's most recent snapshot; if the insert failed, the cache does not
\* hold the content that was not stored, so that the change is detected
\* again on the next cycle.
C18_CacheFollowsSuccessfulWrite ==
    [][\A t \in UrlIds :
        SaveStep(t) =>
            IF url_snapshots' = url_snapshots
            THEN lastContent'[t] # currentContent[t]
            ELSE /\ lastContent'[t] = currentContent[t]
                 /\ lastContent'[t]
                      = SnapshotsOf(url_snapshots', t)
                            [Len(SnapshotsOf(url_snapshots', t))].content
      ]_vars

\* C19: the notifier is called for a change only after the new snapshot has
\* been persisted: whenever the notifier is called for a target, the store
\* holds a snapshot of that target with the newly detected content.
C19_NotifiesOnlyAfterPersisted ==
    [][\A t \in UrlIds :
        pushCalls'[t] > pushCalls[t] =>
            \E k \in 1..Len(History(t)) : History(t)[k].content = lastContent[t]
      ]_vars

\* C20: in monitorURL every fetch, the initial one and the one of each
\* timer tick, is preceded in the same cycle by the upsert of the target's
\* LastCheckMark: a loop gets to a fetch only from the db.Exec of
\* updateLastCheck, done under mu, which sets the mark to the current time
\* (or leaves it as it was when db.Exec fails); a tick's cycle starts with
\* that upsert; the fetch, failing or not, leaves the mark alone; and the
\* store holds one mark per target at most.
C20_UpsertBeforeEveryFetch ==
    [][\A t \in UrlIds :
        /\ (pc'[t] \in {"fetch0", "fetch"} /\ pc[t] # pc'[t]) =>
              /\ pc[t] = (IF pc'[t] = "fetch0" THEN "upd0_cs" ELSE "upd_cs")
              /\ mu = ByLoop(t)
              /\ url_last_check'[t] \in {0, url_last_check[t]}
        /\ (pc[t] = "wait" /\ pc'[t] \notin {"wait", "init", "none"}) =>
              pc'[t] = "upd" /\ tickC[t]
        /\ (pc[t] \in {"upd0", "upd"} /\ pc'[t] \notin {pc[t], "init", "none"}) =>
              pc'[t] = (IF pc[t] = "upd0" THEN "upd0_cs" ELSE "upd_cs")
        /\ (pc[t] \in {"fetch0", "fetch"} /\ pc'[t] \in {"cmp0", "cmp"}) =>
              url_last_check'[t] = url_last_check[t]
        /\ url_last_check \in [UrlIds -> {NoRow} \cup (0..MaxAge)]
      ]_vars

\* the fetch of a tick's cycle has failed, and the mark written before it is
\* the current time
C20_Witness ==
    \E t \in UrlIds :
        /\ pc[t] = "cmp"
        /\ FetchFailed(resp[t])
        /\ url_last_check[t] = 0

\* the content of the most recent snapshot of t
LatestContent(t) == History(t)[Len(History(t))].content

\* C21: a loop started for a target that has snapshots takes the content of
\* the target's most recent snapshot for its baseline, and its initial fetch,
\* when it returns that same content, goes on to the ticker without writing
\* a snapshot.
C21_BaselineIsLatestSnapshot ==
    [][\A t \in UrlIds :
        /\ (InitStep(t) /\ History(t) # <<>>) =>
              lastContent'[t] = LatestContent(t)
        /\ (CompareStep(t) /\ pc[t] = "cmp0" /\ resp[t].err = "nil"
               /\ History(t) # <<>>
               /\ extractBody(resp[t].body) = LatestContent(t)) =>
              pc'[t] = "wait" /\ url_snapshots' = url_snapshots
      ]_vars

\* C22: in every state of a run of the process no target id has more than one
\* monitorURL goroutine: the ids handed out so far have one goroutine (the one
\* whose position pc records) or none, the ids not yet handed out have none.
C22_OneLoopPerTarget ==
    \A t \in UrlIds :
        /\ loops[t] <= 1
        /\ loops[t] = 0 <=> pc[t] = "none"
        /\ t >= nextUrlId => loops[t] = 0

\* target 1 was deleted while its loop runs on, and a target added after it
\* has its own loop under the fresh id 2
C22_Witness ==
    /\ 1 \in deleted
    /\ monitored_urls[2].present
    /\ loops[1] = 1
    /\ loops[2] = 1
    /\ pc[1] = "fetch0"
    /\ pc[2] # "none"

\* C23: every togglePushHandler request that is answered with the redirect
\* has flipped the stored push flag of its target: its UPDATE leaves the flag
\* of the row the opposite of what it was just before, so that the flag after
\* n such requests is the initial one for an even n and the opposite one for
\* an odd n, however the requests interleave.
C23_EveryToggleFlips ==
    [][\A r \in AllReqs :
        (req[r].op = "toggle_cs" /\ req'[r].op = "toggle_ok"
            /\ monitored_urls[req[r].id].present) =>
              monitored_urls'[req[r].id].push_enabled
                  = ~monitored_urls[req[r].id].push_enabled
      ]_vars
====
